---- MODULE Spec2Model ----
(***************************************************************************)
(* A model of the template MCP server (src/template-mcp-server/src/lib.rs):*)
(* the six tool handlers and three resource handlers of TemplateMcpServer, *)
(* the server's only field (start_time), and the registry / dispatcher the *)
(* #[mcp_server] / #[mcp_tools] annotations stand for.                     *)
(*                                                                         *)
(* Strings are TLA+ strings.  A u64 / usize is a sequence of decimal       *)
(* digits, most significant first, without leading zeros (zero is <<0>>),  *)
(* so that the whole 64-bit range is available.  An f64 is a record        *)
(* [neg, half]: the value (+/-) half / 2 with half such a digit sequence;  *)
(* every arithmetic result is rounded to a 53-bit significand, ties to     *)
(* even, as IEEE-754 binary64 does.                                        *)
(***************************************************************************)
EXTENDS Integers, Sequences, FiniteSets, TLC

VARIABLES
    server,            \* the TemplateMcpServer value: [start_time]
    clock,             \* the monotonic clock Instant::now() reads, in ticks
    debug_assertions,  \* cfg!(debug_assertions) of the build
    constructed,       \* history: the start_time Default::default() set
    alive,             \* FALSE once a handler has panicked
    inflight,          \* requests received and not yet answered
    last,              \* the latest completed exchange, or NoExchange
    noted              \* history: one earlier exchange, or NoExchange

vars == <<server, clock, debug_assertions, constructed, alive, inflight, last, noted>>

-----------------------------------------------------------------------------
(* Unsigned integers of any width, as decimal digit sequences.             *)

RECURSIVE StripZeros(_)
StripZeros(ds) ==
    IF Len(ds) > 1 /\ Head(ds) = 0 THEN StripZeros(Tail(ds)) ELSE ds

RECURSIVE LexLess(_, _)
LexLess(a, b) ==
    IF a = <<>> THEN FALSE
    ELSE IF Head(a) # Head(b) THEN Head(a) < Head(b)
    ELSE LexLess(Tail(a), Tail(b))

NatLess(a, b) ==
    Len(a) < Len(b) \/ (Len(a) = Len(b) /\ LexLess(a, b))

\* The k-th digit of ds counted from the least significant one, 0 beyond it.
DigitAt(ds, k) == IF k <= Len(ds) THEN ds[Len(ds) + 1 - k] ELSE 0

Reversed(ds) == [i \in 1..Len(ds) |-> ds[Len(ds) + 1 - i]]

\* The digits of a + b from the k-th on, least significant first.
RECURSIVE AddFrom(_, _, _, _)
AddFrom(a, b, k, carry) ==
    IF k > Len(a) /\ k > Len(b)
    THEN IF carry = 0 THEN <<>> ELSE <<carry>>
    ELSE LET s == DigitAt(a, k) + DigitAt(b, k) + carry
         IN  <<s % 10>> \o AddFrom(a, b, k + 1, s \div 10)

NatAdd(a, b) == StripZeros(Reversed(AddFrom(a, b, 1, 0)))

\* The digits of a - b (a >= b) from the k-th on, least significant first.
RECURSIVE SubFrom(_, _, _, _)
SubFrom(a, b, k, borrow) ==
    IF k > Len(a) THEN <<>>
    ELSE LET d == DigitAt(a, k) - DigitAt(b, k) - borrow
         IN  <<IF d < 0 THEN d + 10 ELSE d>>
                 \o SubFrom(a, b, k + 1, IF d < 0 THEN 1 ELSE 0)

NatSub(a, b) == StripZeros(Reversed(SubFrom(a, b, 1, 0)))

\* A machine integer small enough for TLC, as a digit sequence.
RECURSIVE NatOf(_)
NatOf(n) == IF n < 10 THEN <<n>> ELSE NatOf(n \div 10) \o <<n % 10>>

\* The digits of a * m + carry from the k-th digit of a on, least significant
\* first, for a small machine integer m.
RECURSIVE MulFrom(_, _, _, _)
MulFrom(a, m, k, carry) ==
    IF k > Len(a)
    THEN IF carry = 0 THEN <<>> ELSE Reversed(NatOf(carry))
    ELSE LET p == DigitAt(a, k) * m + carry
         IN  <<p % 10>> \o MulFrom(a, m, k + 1, p \div 10)

NatMul(a, m) == StripZeros(Reversed(MulFrom(a, m, 1, 0)))

\* Long division of ds (most significant digit first, rem carried in) by a
\* small machine integer m: the quotient's digits and the remainder.
RECURSIVE DivFrom(_, _, _)
DivFrom(ds, m, rem) ==
    IF ds = <<>> THEN [q |-> <<>>, r |-> rem]
    ELSE LET cur == rem * 10 + Head(ds)
             rest == DivFrom(Tail(ds), m, cur % m)
         IN  [q |-> <<cur \div m>> \o rest.q, r |-> rest.r]

NatDivMod(a, m) ==
    LET d == DivFrom(a, m, 0) IN [q |-> StripZeros(d.q), r |-> d.r]

NatHalf(a) == NatDivMod(a, 2).q

NatOdd(a) == a[Len(a)] % 2 = 1

NatDouble(a) == NatMul(a, 2)

NatTriple(a) == NatMul(a, 3)

-----------------------------------------------------------------------------
(* Characters, Display of integers, and str::parse::<u64>.                 *)

Digits == <<"0", "1", "2", "3", "4", "5", "6", "7", "8", "9">>

\* char::to_digit(10): the digit's value, or -1 for None.
ToDigit(c) ==
    IF \E d \in 1..10 : Digits[d] = c
    THEN (CHOOSE d \in 1..10 : Digits[d] = c) - 1
    ELSE -1

\* Display for u64 / usize: the decimal digits, no sign, no padding.
RECURSIVE FormatNat(_)
FormatNat(ds) ==
    IF ds = <<>> THEN "" ELSE Digits[Head(ds) + 1] \o FormatNat(Tail(ds))

\* u64::MAX = 2^64 - 1.
U64_MAX == <<1, 8, 4, 4, 6, 7, 4, 4, 0, 7, 3, 7, 0, 9, 5, 5, 1, 6, 1, 5>>

Ok(v) == [ok |-> TRUE, value |-> v]
Err(m) == [ok |-> FALSE, error |-> m]

\* The digit loop of from_str_radix: checked_mul(10) then checked_add(digit).
\* In decimal, acc * 10 is acc followed by 0 and adding a digit to it replaces
\* that 0 (no carry arises).
RECURSIVE ParseDigits(_, _)
ParseDigits(s, acc) ==
    IF s = "" THEN Ok(acc)
    ELSE LET d == ToDigit(Head(s))
             mul == StripZeros(Append(acc, 0))
             sum == StripZeros(Append(acc, d))
         IN  IF d < 0 THEN Err("InvalidDigit")
             ELSE IF NatLess(U64_MAX, mul) THEN Err("PosOverflow")
             ELSE IF NatLess(U64_MAX, sum) THEN Err("PosOverflow")
             ELSE ParseDigits(Tail(s), sum)

\* id.parse::<u64>(): empty and a lone sign are errors, a leading "+" is
\* accepted, a leading "-" is not a digit of an unsigned type.
ParseU64(s) ==
    IF s = "" THEN Err("Empty")
    ELSE IF s = "+" \/ s = "-" THEN Err("InvalidDigit")
    ELSE IF Head(s) = "+" THEN ParseDigits(Tail(s), <<0>>)
    ELSE ParseDigits(s, <<0>>)

-----------------------------------------------------------------------------
(* f64 values that are multiples of 1/2.                                   *)

\* 2^53: a binary64 significand holds the integers below it.
TwoPow53 == <<9, 0, 0, 7, 1, 9, 9, 2, 5, 4, 7, 4, 0, 9, 9, 2>>

\* 2^53 * 2^e for the shifts e the model's magnitudes need.
Thresholds == [e \in 0..16 |-> NatMul(TwoPow53, 2^e)]

\* The least e with n < 2^(53 + e): the bits n has beyond a significand.
RECURSIVE ShiftFor(_, _)
ShiftFor(n, e) == IF NatLess(n, Thresholds[e]) THEN e ELSE ShiftFor(n, e + 1)

\* n rounded to 53 significant bits, ties to even.
Round53(n) ==
    LET e == ShiftFor(n, 0)
        d == NatDivMod(n, 2^e)
        half == 2^(e - 1)
        up == d.r > half \/ (d.r = half /\ NatOdd(d.q))
    IN  IF e = 0 THEN n
        ELSE NatMul(IF up THEN NatAdd(d.q, <<1>>) ELSE d.q, 2^e)

F64(neg, half) == [neg |-> neg /\ half # <<0>>, half |-> half]

\* a + b on f64.
F64Add(a, b) ==
    IF a.neg = b.neg THEN F64(a.neg, Round53(NatAdd(a.half, b.half)))
    ELSE IF NatLess(a.half, b.half) THEN F64(b.neg, Round53(NatSub(b.half, a.half)))
    ELSE F64(a.neg, Round53(NatSub(a.half, b.half)))

\* id_num as f64: the nearest binary64.
U64ToF64(n) == F64(FALSE, Round53(NatDouble(n)))

\* x * 1.5 for an integral x.
F64TimesOneAndHalf(x) == F64(x.neg, Round53(NatTriple(NatHalf(x.half))))

-----------------------------------------------------------------------------
(* Bounds of the model.                                                    *)

\* Clock ticks per second of uptime.
TicksPerSec == 2

\* The clock's reading when the server is constructed.
StartInstant == 1

\* The clock stops advancing here.
MaxTime == 3

\* The longest items list passed to process_list.
MaxItems == 2

\* Requests in flight at once.
MaxInFlight == 2

-----------------------------------------------------------------------------
(* Rust values.                                                            *)

\* What a handler that panics leaves instead of a Result.
Panicked == [panic |-> TRUE]

None == [none |-> TRUE]
Some(x) == [some |-> x]

\* Option::unwrap_or_default for Option<Vec<String>>.
UnwrapOrDefault(o) == IF o = None THEN <<>> ELSE o.some

\* Result::unwrap_or.
UnwrapOr(r, d) == IF r.ok THEN r.value ELSE d

\* [String]::join(sep).
RECURSIVE Join(_, _)
Join(items, sep) ==
    IF items = <<>> THEN ""
    ELSE IF Len(items) = 1 THEN items[1]
    ELSE items[1] \o sep \o Join(Tail(items), sep)

\* items.into_iter().rev().collect().
Rev(items) == [i \in 1..Len(items) |-> items[Len(items) + 1 - i]]

-----------------------------------------------------------------------------
(* The handlers of the #[mcp_tools] impl block.  Each returns an           *)
(* anyhow::Result: Ok(value) or Err(message).                              *)

get_status(self) ==
    Ok("Template MCP Server is running and ready to serve requests")

\* A faulty echo: an empty prefix is taken for an absent one.
echo_empty_prefix_defaults(self, message, prefix) ==
    IF prefix # None /\ prefix.some # ""
    THEN Ok(prefix.some \o ": " \o message)
    ELSE Ok("Echo: " \o message)

echo(self, message, prefix) ==
    IF prefix # None
    THEN Ok(prefix.some \o ": " \o message)
    ELSE Ok("Echo: " \o message)

add_numbers(self, a, b) == Ok(F64Add(a, b))

\* rnd is the value rand::random::<u64>() returns to this call.
\* A faulty create_data: the generated id also ends up in the name.
create_data_named_by_id(self, name, value, tags, rnd) ==
    Ok([id |-> rnd, name |-> name \o "-" \o FormatNat(rnd), value |-> value,
        tags |-> UnwrapOrDefault(tags)])

create_data(self, name, value, tags, rnd) ==
    Ok([id |-> rnd, name |-> name, value |-> value, tags |-> UnwrapOrDefault(tags)])

\* A faulty process_list: "Count" is accepted like "count".
process_list_lenient(self, items, operation) ==
    CASE operation \in {"count", "Count"} ->
            Ok("List contains " \o FormatNat(NatOf(Len(items))) \o " items")
      [] operation = "join" -> Ok(Join(items, ", "))
      [] operation = "reverse" -> Ok(Join(Rev(items), ", "))
      [] OTHER ->
            Err("Unknown operation: " \o operation
                    \o ". Supported: count, join, reverse")

\* A faulty process_list: "reverse" joins the items in their given order.
process_list_unreversed(self, items, operation) ==
    CASE operation = "count" ->
            Ok("List contains " \o FormatNat(NatOf(Len(items))) \o " items")
      [] operation \in {"join", "reverse"} -> Ok(Join(items, ", "))
      [] OTHER ->
            Err("Unknown operation: " \o operation
                    \o ". Supported: count, join, reverse")

process_list(self, items, operation) ==
    CASE operation = "count" ->
            Ok("List contains " \o FormatNat(NatOf(Len(items))) \o " items")
      [] operation = "join" -> Ok(Join(items, ", "))
      [] operation = "reverse" -> Ok(Join(Rev(items), ", "))
      [] OTHER ->
            Err("Unknown operation: " \o operation
                    \o ". Supported: count, join, reverse")

\* A faulty example_with_error: the test of should_fail is negated.
example_with_error_negated(self, should_fail) ==
    IF ~should_fail
    THEN Err("This tool was asked to fail")
    ELSE Ok("Tool executed successfully")

example_with_error(self, should_fail) ==
    IF should_fail
    THEN Err("This tool was asked to fail")
    ELSE Ok("Tool executed successfully")

\* A faulty server_status_resource: the private helper is counted as a tool.
server_status_resource_counting_helper(self, instant) ==
    LET uptime == instant - self.start_time
    IN  Ok([name |-> "Template MCP Server",
            version |-> "0.1.0",
            uptime_seconds |-> uptime \div TicksPerSec,
            tools_count |-> 7,
            resources_count |-> 3])

\* Instant::elapsed then Duration::as_secs; instant is Instant::now().
server_status_resource(self, instant) ==
    LET uptime == instant - self.start_time
    IN  Ok([name |-> "Template MCP Server",
            version |-> "0.1.0",
            uptime_seconds |-> uptime \div TicksPerSec,
            tools_count |-> 6,
            resources_count |-> 3])

server_config_resource(self, debug) ==
    Ok([max_concurrent_requests |-> 100,
        timeout_seconds |-> 30,
        debug_mode |-> debug,
        supported_formats |-> <<"json", "text", "binary">>])

\* A faulty example_data_resource: an unparsable id resolves to 0.
example_data_resource_zero(self, id) ==
    LET id_num == UnwrapOr(ParseU64(id), <<0>>)
    IN  Ok([id |-> id_num,
            name |-> "Example Item " \o FormatNat(id_num),
            value |-> F64TimesOneAndHalf(U64ToF64(id_num)),
            tags |-> <<"example", "template", "id-" \o FormatNat(id_num)>>])

\* A faulty example_data_resource: Result::unwrap, which panics on Err.
example_data_resource_unwrap(self, id) ==
    LET parsed == ParseU64(id)
    IN  IF ~parsed.ok THEN Panicked
        ELSE Ok([id |-> parsed.value,
                 name |-> "Example Item " \o FormatNat(parsed.value),
                 value |-> F64TimesOneAndHalf(U64ToF64(parsed.value)),
                 tags |-> <<"example", "template",
                            "id-" \o FormatNat(parsed.value)>>])

example_data_resource(self, id) ==
    LET id_num == UnwrapOr(ParseU64(id), <<1>>)
    IN  Ok([id |-> id_num,
            name |-> "Example Item " \o FormatNat(id_num),
            value |-> F64TimesOneAndHalf(U64ToF64(id_num)),
            tags |-> <<"example", "template", "id-" \o FormatNat(id_num)>>])

\* A faulty receiver: a handler stamps start_time anew.
SelfAfter_restamped(self) == [self EXCEPT !.start_time = clock]

\* Every handler takes &self: the server value after a call is the one before.
SelfAfter(self) == self

-----------------------------------------------------------------------------
(* Inputs.                                                                 *)

Messages == {"", "hi"}

Prefixes == {None, Some(""), Some("Yo"), Some("Echo")}

\* 2.0, 3.5, -2.0 and 2^53.
Numbers ==
    {F64(FALSE, <<4>>), F64(FALSE, <<7>>), F64(TRUE, <<4>>),
     F64(FALSE, NatDouble(TwoPow53))}

\* 1.0.
Values == {F64(FALSE, <<2>>)}

Names == {"a"}

TagLists == {None, Some(<<>>), Some(<<"x", "y">>)}

\* Values rand::random::<u64>() may return.
RandIds == {<<7>>, U64_MAX}

ItemStrings == {"a", "b"}

RECURSIVE SeqsUpTo(_, _)
SeqsUpTo(S, n) ==
    IF n = 0 THEN {<<>>}
    ELSE LET shorter == SeqsUpTo(S, n - 1)
         IN  shorter \cup {Append(q, x) : q \in {r \in shorter : Len(r) = n - 1}, x \in S}

ItemLists == SeqsUpTo(ItemStrings, MaxItems)

Operations == {"count", "join", "reverse", "bogus", "Count", ""}

IdStrings ==
    {"42", "0", "1", "007", "+7", "", "abc", "-1", "-0", "+", "4x", "1.5", " 42",
     "18446744073709551615", "18446744073709551616", "99999999999999999999",
     "3002399751580331", "9007199254740993"}

-----------------------------------------------------------------------------
(* State.                                                                  *)

NoExchange == [none |-> TRUE]
NoCall == [none |-> TRUE]
NoTarget == "-"
Direct == [direct |-> TRUE]

Call(name, args) == [name |-> name, args |-> args]

\* Default::default(): start_time is Instant::now().
Default(instant) == [start_time |-> instant]

Init ==
    /\ clock = StartInstant
    /\ server = Default(clock)
    /\ constructed = clock
    /\ debug_assertions \in BOOLEAN
    /\ alive = TRUE
    /\ inflight = {}
    /\ last = NoExchange
    /\ noted = NoExchange

\* Time passes.
Tick ==
    /\ clock < MaxTime
    /\ clock' = clock + 1
    /\ UNCHANGED <<server, debug_assertions, constructed, alive, inflight, last, noted>>

\* The request req, resolved to the handler named target (or NoTarget) and
\* answered by the invocation call (or NoCall), has the response result.
Finish(req, target, call, result) ==
    /\ alive
    /\ last' = [req |-> req, target |-> target, call |-> call, resp |-> result]
    /\ alive' = ("ok" \in DOMAIN result)
    /\ server' = SelfAfter(server)
    /\ UNCHANGED <<clock, debug_assertions, constructed>>

-----------------------------------------------------------------------------
(* The handlers called as methods of the library.                          *)

Returned(call, result) == Finish(Direct, call.name, call, result)

CallGetStatus ==
    /\ Returned(Call("get_status", <<>>), get_status(server))
    /\ UNCHANGED <<inflight, noted>>

CallEcho ==
    \E message \in Messages, prefix \in Prefixes :
        /\ Returned(Call("echo", [message |-> message, prefix |-> prefix]),
                  echo(server, message, prefix))
        /\ UNCHANGED <<inflight, noted>>

CallAddNumbers ==
    \E a \in Numbers, b \in Numbers :
        /\ Returned(Call("add_numbers", [a |-> a, b |-> b]),
                  add_numbers(server, a, b))
        /\ UNCHANGED <<inflight, noted>>

CallCreateData ==
    \E name \in Names, value \in Values, tags \in TagLists, rnd \in RandIds :
        /\ Returned(Call("create_data", [name |-> name, value |-> value, tags |-> tags]),
                  create_data(server, name, value, tags, rnd))
        /\ UNCHANGED <<inflight, noted>>

CallProcessList ==
    \E items \in ItemLists, operation \in Operations :
        /\ Returned(Call("process_list", [items |-> items, operation |-> operation]),
                  process_list(server, items, operation))
        /\ UNCHANGED <<inflight, noted>>

CallExampleWithError ==
    \E should_fail \in BOOLEAN :
        /\ Returned(Call("example_with_error", [should_fail |-> should_fail]),
                  example_with_error(server, should_fail))
        /\ UNCHANGED <<inflight, noted>>

ReadServerStatus ==
    /\ Returned(Call("server_status_resource", <<>>),
              server_status_resource(server, clock))
    /\ UNCHANGED <<inflight, noted>>

ReadServerConfig ==
    /\ Returned(Call("server_config_resource", <<>>),
              server_config_resource(server, debug_assertions))
    /\ UNCHANGED <<inflight, noted>>

ReadExampleData ==
    \E id \in IdStrings :
        /\ Returned(Call("example_data_resource", [id |-> id]),
                  example_data_resource(server, id))
        /\ UNCHANGED <<inflight, noted>>

Next ==
    \/ Tick
    \/ CallGetStatus
    \/ CallEcho
    \/ CallAddNumbers
    \/ CallCreateData
    \/ CallProcessList
    \/ CallExampleWithError
    \/ ReadServerStatus
    \/ ReadServerConfig
    \/ ReadExampleData

Spec == Init /\ [][Next]_vars

-----------------------------------------------------------------------------
(* The registry the annotations declare.                                   *)

\* #[mcp_server(name = ..., version = ...)].
ServerName == "Template MCP Server"
ServerVersion == "0.1.0"

\* The public methods of the #[mcp_tools] block without #[mcp_resource], with
\* their parameters in declaration order.
Param(name, type, required) == [name |-> name, type |-> type, required |-> required]

\* A faulty registry: echo is not registered.
ToolParams_without_echo ==
    [get_status |-> <<>>,
     add_numbers |-> <<Param("a", "num", TRUE), Param("b", "num", TRUE)>>,
     create_data |-> <<Param("name", "str", TRUE), Param("value", "num", TRUE),
                       Param("tags", "arr", FALSE)>>,
     process_list |-> <<Param("items", "arr", TRUE), Param("operation", "str", TRUE)>>,
     example_with_error |-> <<Param("should_fail", "bool", TRUE)>>]

ToolParams ==
    [get_status |-> <<>>,
     echo |-> <<Param("message", "str", TRUE), Param("prefix", "str", FALSE)>>,
     add_numbers |-> <<Param("a", "num", TRUE), Param("b", "num", TRUE)>>,
     create_data |-> <<Param("name", "str", TRUE), Param("value", "num", TRUE),
                       Param("tags", "arr", FALSE)>>,
     process_list |-> <<Param("items", "arr", TRUE), Param("operation", "str", TRUE)>>,
     example_with_error |-> <<Param("should_fail", "bool", TRUE)>>]

ToolNames == DOMAIN ToolParams

\* The methods with #[mcp_resource], in declaration order.
ResourceTemplates ==
    <<[uri_template |-> "template://server-status", handler |-> "server_status_resource"],
      [uri_template |-> "template://server-config", handler |-> "server_config_resource"],
      [uri_template |-> "template://example-data/{id}", handler |-> "example_data_resource"]>>

-----------------------------------------------------------------------------
(* Requests and responses of the protocol.  An argument value is a tagged  *)
(* record: [str |-> s], [num |-> x], [bool |-> b] or [arr |-> strings].    *)

ToolCall(name, arguments) == [tool |-> name, arguments |-> arguments]
ResourceRead(uri) == [uri |-> uri]

Success(v) == [ok |-> TRUE, value |-> v]
Failure(kind, message) == [ok |-> FALSE, kind |-> kind, error |-> message]

\* Decode `arguments` against `params`, from the i-th parameter on, into the
\* handler's arguments `acc`: a missing required parameter or a value of
\* another type is an InvalidArgument, a parameter not declared is ignored,
\* an absent optional parameter is None.
RECURSIVE Decode(_, _, _, _)
Decode(params, arguments, i, acc) ==
    IF i > Len(params) THEN Ok(acc)
    ELSE LET p == params[i]
             present == p.name \in DOMAIN arguments
             typed == present /\ DOMAIN arguments[p.name] = {p.type}
             v == arguments[p.name][p.type]
         IN  IF present /\ ~typed
             THEN Err("invalid type for parameter " \o p.name)
             ELSE IF ~present /\ p.required
             THEN Err("missing required parameter " \o p.name)
             ELSE Decode(params, arguments, i + 1,
                         acc @@ (p.name :> IF p.required THEN v
                                           ELSE IF present THEN Some(v) ELSE None))

\* The handler `call` names, applied to its decoded arguments.
Invoke(self, call, rnd, instant, debug) ==
    CASE call.name = "get_status" -> get_status(self)
      [] call.name = "echo" -> echo(self, call.args.message, call.args.prefix)
      [] call.name = "add_numbers" -> add_numbers(self, call.args.a, call.args.b)
      [] call.name = "create_data" ->
            create_data(self, call.args.name, call.args.value, call.args.tags, rnd)
      [] call.name = "process_list" ->
            process_list(self, call.args.items, call.args.operation)
      [] call.name = "example_with_error" ->
            example_with_error(self, call.args.should_fail)
      [] call.name = "server_status_resource" -> server_status_resource(self, instant)
      [] call.name = "server_config_resource" -> server_config_resource(self, debug)
      [] call.name = "example_data_resource" -> example_data_resource(self, call.args.id)

\* The segments of s between "/" characters; cur is the segment being read.
RECURSIVE SplitFrom(_, _)
SplitFrom(s, cur) ==
    IF s = "" THEN <<cur>>
    ELSE IF Head(s) = "/" THEN <<cur>> \o SplitFrom(Tail(s), "")
    ELSE SplitFrom(Tail(s), cur \o Head(s))

Segments(s) == SplitFrom(s, "")

IsParam(seg) ==
    Len(seg) >= 2 /\ Head(seg) = "{" /\ SubSeq(seg, Len(seg), Len(seg)) = "}"

ParamName(seg) == SubSeq(seg, 2, Len(seg) - 1)

\* The segments of each registered template.
TemplateSegments ==
    [i \in 1..Len(ResourceTemplates) |-> Segments(ResourceTemplates[i].uri_template)]

\* The segments u of a uri against the segments t of a template: literal
\* segments equal, {param} segments captured.
Matches(t, u) ==
    /\ Len(t) = Len(u)
    /\ \A i \in 1..Len(t) : IsParam(t[i]) \/ t[i] = u[i]

Captures(t, u) ==
    LET ps == {i \in 1..Len(t) : IsParam(t[i])}
    IN  [n \in {ParamName(t[i]) : i \in ps} |->
            u[CHOOSE i \in ps : ParamName(t[i]) = n]]

\* resolve(uri): the first registered template uri matches, or NoCall.
Resolve(uri) ==
    LET u == Segments(uri)
        hits == {i \in 1..Len(ResourceTemplates) : Matches(TemplateSegments[i], u)}
        first == CHOOSE i \in hits : \A j \in hits : i <= j
    IN  IF hits = {} THEN NoCall
        ELSE Call(ResourceTemplates[first].handler, Captures(TemplateSegments[first], u))

\* lookup(name) and the decoding of the arguments: the call to make, or the
\* Failure to answer with.
Route(req) ==
    IF "tool" \in DOMAIN req
    THEN IF req.tool \notin ToolNames
         THEN [target |-> NoTarget, call |-> NoCall,
               failure |-> Failure("UnknownTool", "unknown tool: " \o req.tool)]
         ELSE LET d == Decode(ToolParams[req.tool], req.arguments, 1, <<>>)
              IN  IF d.ok THEN [target |-> req.tool, call |-> Call(req.tool, d.value)]
                  ELSE [target |-> req.tool, call |-> NoCall,
                        failure |-> Failure("InvalidArgument", d.error)]
    ELSE LET c == Resolve(req.uri)
         IN  IF c = NoCall
             THEN [target |-> NoTarget, call |-> NoCall,
                   failure |-> Failure("NotFound", "no resource matches " \o req.uri)]
             ELSE [target |-> c.name, call |-> c]

\* handle(request): the handler's Ok becomes Success, its Err a Failure of
\* kind ToolFailed or ResourceFailed; a panic is not a Result.
Respond(req, result) ==
    IF "ok" \notin DOMAIN result THEN result
    ELSE IF result.ok THEN Success(result.value)
    ELSE Failure(IF "tool" \in DOMAIN req THEN "ToolFailed" ELSE "ResourceFailed",
                 result.error)

-----------------------------------------------------------------------------
(* The server behind the dispatcher, requests handled concurrently.        *)

Num(half) == [num |-> F64(FALSE, half)]

\* One well-formed request per tool and per resource, two of them failing.
CoreRequests ==
    {ToolCall("get_status", <<>>),
     ToolCall("echo", [message |-> [str |-> "hi"]]),
     ToolCall("add_numbers", [a |-> Num(<<4>>), b |-> Num(<<7>>)]),
     ToolCall("create_data", [name |-> [str |-> "a"], value |-> Num(<<2>>)]),
     ToolCall("process_list",
              [items |-> [arr |-> <<"a", "b">>], operation |-> [str |-> "bogus"]]),
     ToolCall("example_with_error", [should_fail |-> [bool |-> TRUE]]),
     ToolCall("example_with_error", [should_fail |-> [bool |-> FALSE]]),
     ResourceRead("template://server-status"),
     ResourceRead("template://server-config"),
     ResourceRead("template://example-data/42")}

\* Requests the registry or the decoding turns down, and a few it accepts.
OddRequests ==
    {ToolCall("echo", [prefix |-> [str |-> "Yo"]]),
     ToolCall("echo", [message |-> [str |-> "hi"], prefix |-> [str |-> ""]]),
     ToolCall("add_numbers", [a |-> Num(<<4>>), b |-> [str |-> "7"]]),
     ToolCall("create_data",
              [name |-> [str |-> "a"], value |-> Num(<<2>>), extra |-> [bool |-> TRUE]]),
     ToolCall("internal_helper", <<>>),
     ToolCall("Echo", [message |-> [str |-> "hi"]]),
     ToolCall("", <<>>),
     ResourceRead("template://example-data/"),
     ResourceRead("template://example-data/abc"),
     ResourceRead("template://example-data"),
     ResourceRead("template://example-data/42/x"),
     ResourceRead("template://server-status/"),
     ResourceRead("Template://server-config"),
     ResourceRead("template://nope")}

Requests == CoreRequests \cup OddRequests

ReceiveFrom(S) ==
    \E req \in S \ inflight :
        /\ alive
        /\ Cardinality(inflight) < MaxInFlight
        /\ inflight' = inflight \cup {req}
        /\ UNCHANGED <<server, clock, debug_assertions, constructed, alive, last, noted>>

Receive == ReceiveFrom(Requests)

ReceiveCore == ReceiveFrom(CoreRequests)

\* handle(req): the request leaves the requests in flight with its response.
Answer(req, rnd) ==
    LET route == Route(req)
    IN  /\ IF route.call = NoCall
           THEN Finish(req, route.target, NoCall, route.failure)
           ELSE Finish(req, route.target, route.call,
                       Respond(req, Invoke(server, route.call, rnd, clock,
                                           debug_assertions)))
        /\ inflight' = inflight \ {req}

\* The values rand::random may return to the handler of req.
Draws(req) ==
    IF "tool" \in DOMAIN req /\ req.tool = "create_data"
    THEN RandIds ELSE {CHOOSE r \in RandIds : TRUE}

HandleRequest ==
    \E req \in inflight : \E rnd \in Draws(req) :
        /\ Answer(req, rnd)
        /\ noted' = noted

\* The same, keeping the exchange that was the latest as the noted one.
HandleNoting ==
    \E req \in inflight : \E rnd \in Draws(req) :
        /\ last # NoExchange
        /\ Answer(req, rnd)
        /\ noted' = last

NextServer ==
    \/ Tick
    \/ Receive
    \/ HandleRequest

SpecServer == Init /\ [][NextServer]_vars

NextHistory ==
    \/ Tick
    \/ ReceiveCore
    \/ HandleRequest
    \/ HandleNoting

SpecHistory == Init /\ [][NextHistory]_vars

-----------------------------------------------------------------------------
(* Properties.                                                             *)

\* The latest exchange invoked the handler `name`.
Called(name) ==
    last # NoExchange /\ last.call # NoCall /\ last.call.name = name

\* sub occurs in s.
Contains(s, sub) ==
    \E i \in 1..(Len(s) - Len(sub) + 1) : SubSeq(s, i, i + Len(sub) - 1) = sub

\* C2: process_list fails exactly when the operation is not one of "count",
\* "join", "reverse" (case-sensitive), whatever the items; the failure message
\* contains the rejected operation and the list of supported operations.
C2_ProcessListFailsExactlyOnUnknownOperation ==
    Called("process_list") =>
        LET operation == last.call.args.operation
            r == last.resp
        IN  /\ r.ok <=> operation \in {"count", "join", "reverse"}
            /\ ~r.ok => /\ Contains(r.error, operation)
                        /\ Contains(r.error, "count, join, reverse")

C2_Witness ==
    /\ Called("process_list")
    /\ last.call.args.items = <<>>
    /\ last.call.args.operation = "Count"
    /\ ~last.resp.ok

\* items[1], ..., items[n] separated by ", ".
RECURSIVE InOrder(_, _)
InOrder(items, n) ==
    IF n = 0 THEN ""
    ELSE IF n = 1 THEN items[1]
    ELSE InOrder(items, n - 1) \o ", " \o items[n]

\* items[n], ..., items[k] separated by ", ".
RECURSIVE InReverse(_, _)
InReverse(items, k) ==
    IF k > Len(items) THEN ""
    ELSE IF k = Len(items) THEN items[k]
    ELSE InReverse(items, k + 1) \o ", " \o items[k]

\* C3: "count" returns "List contains N items" with N the length of items,
\* "join" the items in their order separated by ", ", "reverse" the items in
\* reversed order separated by ", "; join and reverse of the empty list are "".
C3_ProcessListResults ==
    Called("process_list") =>
        LET items == last.call.args.items
            operation == last.call.args.operation
            r == last.resp
        IN  /\ operation = "count" =>
                r = Ok("List contains " \o ToString(Len(items)) \o " items")
            /\ operation = "join" => r = Ok(InOrder(items, Len(items)))
            /\ operation = "reverse" => r = Ok(InReverse(items, 1))
            /\ operation \in {"join", "reverse"} /\ items = <<>> => r = Ok("")

C3_Witness ==
    /\ Called("process_list")
    /\ last.call.args.items = <<"a", "b">>
    /\ last.call.args.operation = "reverse"
    /\ last.resp = Ok("b, a")

\* C4: echo never fails; without a prefix it returns "Echo: " then the message,
\* with a prefix p (the empty one included) p then ": " then the message.
C4_EchoFormat ==
    Called("echo") =>
        LET message == last.call.args.message
            prefix == last.call.args.prefix
        IN  /\ last.resp.ok
            /\ prefix = None => last.resp.value = "Echo: " \o message
            /\ prefix # None => last.resp.value = prefix.some \o ": " \o message

C4_Witness ==
    /\ Called("echo")
    /\ last.call.args.prefix = Some("")
    /\ last.call.args.message = "hi"
    /\ last.resp = Ok(": hi")

\* The decimal numeral s denotes: s is one or more decimal digits.
IsNumeral(s) ==
    s # "" /\ \A i \in 1..Len(s) : ToDigit(SubSeq(s, i, i)) >= 0

NumeralValue(s) == StripZeros([i \in 1..Len(s) |-> ToDigit(SubSeq(s, i, i))])

\* The id a string resolves to: the unsigned 64-bit integer it denotes (an
\* optional "+", then digits, at most u64::MAX), and 1 for every other string.
ResolvedId(s) ==
    LET body == IF s # "" /\ Head(s) = "+" THEN Tail(s) ELSE s
    IN  IF IsNumeral(body) /\ ~NatLess(U64_MAX, NumeralValue(body))
        THEN NumeralValue(body)
        ELSE <<1>>

\* |a - b| for naturals.
NatDistance(a, b) == IF NatLess(a, b) THEN NatSub(b, a) ELSE NatSub(a, b)

\* x (a 64-bit float, in halves) is n * 1.5: exactly where 3n/2 has a 53-bit
\* significand, and within the relative error 2^-51 of two roundings beyond.
IsOneAndHalfTimes(x, n) ==
    LET exact == NatMul(n, 3)
        slack == NatDivMod(NatDivMod(NatDivMod(exact, 2^17).q, 2^17).q, 2^17).q
    IN  /\ ~x.neg
        /\ NatLess(exact, TwoPow53) => x.half = exact
        /\ ~NatLess(slack, NatDistance(x.half, exact))

\* C6: reading the example-data resource never fails; the record's id is the
\* unsigned 64-bit integer the id string denotes, and 1 when it denotes none
\* (empty, non-numeric, negative, out of range); name is "Example Item <id>",
\* value is id * 1.5 and tags are ["example", "template", "id-<id>"], all
\* built from that resolved id.
C6_ExampleDataNeverFails ==
    Called("example_data_resource") =>
        LET n == ResolvedId(last.call.args.id)
            r == last.resp
        IN  /\ r.ok
            /\ r.value.id = n
            /\ r.value.name = "Example Item " \o FormatNat(n)
            /\ IsOneAndHalfTimes(r.value.value, n)
            /\ r.value.tags = <<"example", "template", "id-" \o FormatNat(n)>>
            /\ last.call.args.id \in {"", "abc", "-1", "18446744073709551616"}
                    => n = <<1>>
            /\ last.call.args.id = "007" => n = <<7>>

C6_Witness ==
    /\ Called("example_data_resource")
    /\ last.call.args.id = "18446744073709551616"
    /\ last.resp = Ok([id |-> <<1>>,
                       name |-> "Example Item 1",
                       value |-> [neg |-> FALSE, half |-> <<3>>],
                       tags |-> <<"example", "template", "id-1">>])

\* C7: every tool and resource handler, for every input, returns a success
\* value or a failure carrying a message and never panics; after a failure
\* the server is still running and handles further requests.
C7_HandlersAlwaysReturn ==
    /\ alive
    /\ last # NoExchange =>
        /\ "ok" \in DOMAIN last.resp
        /\ last.resp.ok => "value" \in DOMAIN last.resp
        /\ ~last.resp.ok => "error" \in DOMAIN last.resp /\ last.resp.error # ""
        /\ ENABLED CallGetStatus
        /\ ENABLED CallExampleWithError

C7_Witness ==
    /\ Called("example_with_error")
    /\ last.call.args.should_fail
    /\ ~last.resp.ok
    /\ alive
    /\ ENABLED CallGetStatus

\* The exchange x answered a tool call.
IsToolExchange(x) == x # NoExchange /\ "tool" \in DOMAIN x.req

\* The noted exchange and the latest one answered the same tool call.
SameToolCallTwice ==
    /\ IsToolExchange(noted)
    /\ IsToolExchange(last)
    /\ noted.req.tool = last.req.tool
    /\ noted.req = last.req

\* The response of the exchange x, the generated id of create_data's record
\* left out.
ButGeneratedId(x) ==
    IF x.req.tool = "create_data" /\ x.resp.ok
    THEN [x.resp EXCEPT !.value.id = <<0>>]
    ELSE x.resp

\* C1 as stated: two calls of a tool with identical arguments, at any two
\* points of a sequence of requests, return identical payloads.
C1_IdenticalCallsIdenticalPayloads ==
    SameToolCallTwice => noted.resp = last.resp

\* C1 amended: two calls of a tool with identical arguments return identical
\* payloads except for the id of create_data's record, generated anew by
\* each call.
C1_IdenticalCallsIdenticalButGeneratedId ==
    SameToolCallTwice =>
        /\ ButGeneratedId(noted) = ButGeneratedId(last)
        /\ last.req.tool # "create_data" => noted.resp = last.resp

C1_Witness ==
    /\ SameToolCallTwice
    /\ last.req.tool = "create_data"
    /\ noted.resp.ok /\ last.resp.ok
    /\ noted.resp.value.id # last.resp.value.id
    /\ noted.resp.value.name = last.resp.value.name
    /\ noted.resp.value.value = last.resp.value.value
    /\ noted.resp.value.tags = last.resp.value.tags

\* C5: example_with_error fails if and only if should_fail is true, with
\* should_fail = false it returns "Tool executed successfully", whatever the
\* outcome of any earlier call.
C5_FailsIffAsked ==
    Called("example_with_error") =>
        LET should_fail == last.call.args.should_fail
        IN  /\ ~last.resp.ok <=> should_fail
            /\ ~should_fail => last.resp = Success("Tool executed successfully")
            /\ should_fail => last.resp.kind = "ToolFailed"

C5_Witness ==
    /\ IsToolExchange(noted)
    /\ noted.req = ToolCall("example_with_error", [should_fail |-> [bool |-> TRUE]])
    /\ ~noted.resp.ok
    /\ Called("example_with_error")
    /\ ~last.call.args.should_fail
    /\ last.resp = Success("Tool executed successfully")

\* p is the beginning of s.
StartsWith(s, p) == Len(s) >= Len(p) /\ SubSeq(s, 1, Len(p)) = p

\* uri has the form of one of the three registered templates:
\* template://server-status, template://server-config, or
\* template://example-data/ followed by one path segment.
OfRegisteredForm(uri) ==
    \/ uri \in {"template://server-status", "template://server-config"}
    \/ /\ StartsWith(uri, "template://example-data/")
       /\ ~Contains(SubSeq(uri, Len("template://example-data/") + 1, Len(uri)), "/")

\* C8: a tool call naming none of the six registered tools, and a resource
\* read whose URI matches none of the three registered templates, is answered
\* by a Failure, invokes no handler and leaves the server running; a call
\* naming a registered tool is resolved to that tool's handler.
C8_UnregisteredFailsRegisteredResolves ==
    last # NoExchange =>
        /\ alive
        /\ "tool" \in DOMAIN last.req =>
            IF last.req.tool \in {"get_status", "echo", "add_numbers",
                                  "create_data", "process_list", "example_with_error"}
            THEN /\ last.target = last.req.tool
                 /\ last.call # NoCall => last.call.name = last.req.tool
                 /\ last.call = NoCall => last.resp.kind = "InvalidArgument"
            ELSE /\ ~last.resp.ok
                 /\ last.resp.kind = "UnknownTool"
                 /\ last.call = NoCall /\ last.target = NoTarget
        /\ "uri" \in DOMAIN last.req /\ ~OfRegisteredForm(last.req.uri) =>
            /\ ~last.resp.ok
            /\ last.resp.kind = "NotFound"
            /\ last.call = NoCall /\ last.target = NoTarget

C8_Witness ==
    /\ last # NoExchange
    /\ last.req = ToolCall("internal_helper", <<>>)
    /\ ~last.resp.ok
    /\ last.call = NoCall
    /\ alive
    /\ ToolCall("echo", [message |-> [str |-> "hi"]]) \in inflight

\* The responses to req of a server that handles nothing else, uptime_seconds
\* set to 0.
Alone(req) ==
    IF "tool" \in DOMAIN req
    THEN CASE req.tool = "get_status" ->
                {Success("Template MCP Server is running and ready to serve requests")}
           [] req.tool = "echo" -> {Success("Echo: hi")}
           [] req.tool = "add_numbers" ->
                {Success([neg |-> FALSE, half |-> <<1, 1>>])}
           [] req.tool = "create_data" ->
                {Success([id |-> r, name |-> "a",
                          value |-> [neg |-> FALSE, half |-> <<2>>],
                          tags |-> <<>>]) : r \in RandIds}
           [] req.tool = "process_list" ->
                {Failure("ToolFailed",
                         "Unknown operation: bogus. Supported: count, join, reverse")}
           [] req.tool = "example_with_error" ->
                IF req.arguments.should_fail.bool
                THEN {Failure("ToolFailed", "This tool was asked to fail")}
                ELSE {Success("Tool executed successfully")}
    ELSE CASE req.uri = "template://server-status" ->
                {Success([name |-> "Template MCP Server", version |-> "0.1.0",
                          uptime_seconds |-> 0, tools_count |-> 6,
                          resources_count |-> 3])}
           [] req.uri = "template://server-config" ->
                {Success([max_concurrent_requests |-> 100, timeout_seconds |-> 30,
                          debug_mode |-> debug_assertions,
                          supported_formats |-> <<"json", "text", "binary">>])}
           [] req.uri = "template://example-data/42" ->
                {Success([id |-> <<4, 2>>, name |-> "Example Item 42",
                          value |-> [neg |-> FALSE, half |-> <<1, 2, 6>>],
                          tags |-> <<"example", "template", "id-42">>])}

\* The response of the exchange x, uptime_seconds set to 0.
ButUptime(x) ==
    IF x.target = "server_status_resource" /\ x.resp.ok
    THEN [x.resp EXCEPT !.value.uptime_seconds = 0]
    ELSE x.resp

C10_StatusReportsRegistry ==
    last # NoExchange /\ last.target = "server_status_resource" =>
        /\ last.resp.ok
        /\ last.resp.value.tools_count = Cardinality(ToolNames)
        /\ last.resp.value.resources_count = Len(ResourceTemplates)
        /\ last.resp.value.name = ServerName
        /\ last.resp.value.version = ServerVersion
        /\ last.resp.value.uptime_seconds >= 0
        /\ noted # NoExchange /\ noted.target = "server_status_resource" =>
                last.resp.value.uptime_seconds >= noted.resp.value.uptime_seconds

C10_Witness ==
    /\ last # NoExchange /\ last.target = "server_status_resource"
    /\ noted # NoExchange /\ noted.target = "server_status_resource"
    /\ last.resp.value.uptime_seconds > noted.resp.value.uptime_seconds
    /\ last.resp.value.tools_count = 6
    /\ last.resp.value.resources_count = 3

====
